---- MODULE Spec2Model ----
(***************************************************************************)
(* Model of backend/server.py (the Flicksy API): the request handlers as   *)
(* processes over the document store.  Every awaited store call of a       *)
(* handler is one atomic step; the code a handler runs between two awaits  *)
(* belongs to the step of the await that precedes it.                      *)
(***************************************************************************)
EXTENDS Integers, FiniteSets, Sequences, TLC

\* Requests that arrive in one behaviour of concurrent requests.
MaxOps == 2
\* Requests that arrive in one behaviour of requests served one at a time.
MaxSeqOps == 4
\* toggleLike requests that arrive in one behaviour of concurrent toggles.
MaxLikeOps == 4
\* Requests that arrive in one behaviour of role-gated requests.
MaxGateOps == 3
\* Requests that arrive in one behaviour of trending queries.
MaxTrendOps == 2
\* Posts in the store of the trending queries.
MaxPosts == 3
\* The largest limit a trending query asks for.
MaxLimit == 3
\* The time at which the clock of the trending queries stops.
MaxClock == 6
\* timedelta(hours=24): the trending window, in ticks of the logical clock.
Day == 3
\* Requests that can be in flight at the same time.
MaxProcs == 2

\* The number of users who each toggle their like on one post once.
MaxFans == 3

Procs == 1..MaxProcs

VARIABLES
    users,      \* db.users: user id -> document
    posts,      \* db.posts: post id -> document
    comments,   \* db.comments: set of documents
    likes,      \* db.likes: set of documents
    reqs,       \* db.verification_requests: request id -> document
    clock,      \* datetime.now(timezone.utc), as a logical clock
    nextId,     \* the next fresh uuid4
    proc,       \* the handler each worker runs: its place and its locals
    seen,       \* history: what was true of the store when each call arrived
    run         \* history: the current run of toggleLike calls on one pair

db == <<users, posts, comments, likes, reqs, clock>>
vars == <<users, posts, comments, likes, reqs, clock, nextId, proc, seen, run>>

---------------------------------------------------------------------------
(* Documents *)

\* class User (with password_hash and is_banned as register stores them).
UserDoc(name, role, verified) ==
    [username |-> name, email |-> name, display_name |-> name,
     is_verified |-> verified, role |-> role, is_banned |-> FALSE,
     posts_count |-> 0]

NoUser == UserDoc("", "", FALSE)

\* class Post.
PostDoc(author_id, author, now) ==
    [author_id |-> author_id,
     author_username |-> author.username,
     author_display_name |-> author.display_name,
     author_is_verified |-> author.is_verified,
     created_at |-> now,
     likes_count |-> 0, comments_count |-> 0, reposts_count |-> 0]

\* class Comment.
CommentDoc(id, post_id, author_id, author) ==
    [id |-> id, post_id |-> post_id, author_id |-> author_id,
     author_username |-> author.username,
     author_display_name |-> author.display_name,
     author_is_verified |-> author.is_verified,
     likes_count |-> 0]

\* like_data of toggle_like_post.
LikeDoc(id, user_id, post_id) ==
    [id |-> id, user_id |-> user_id, post_id |-> post_id]

\* class VerificationRequest; reviewed_by "" and reviewed_at -1 are None.
VerificationRequest(user_id, user) ==
    [user_id |-> user_id, user_username |-> user.username,
     user_display_name |-> user.display_name,
     status |-> "pending", reviewed_by |-> "", reviewed_at |-> -1]

\* A response: the status code and the message (or the exception's detail).
Response(status, detail) == [status |-> status, detail |-> detail]
NoResponse == Response(0, "")

\* A worker: the request it serves, its place in the handler, its locals, and
\* the list it returned (the ids of the documents, in the order returned).
Idle ==
    [op |-> "none", pc |-> "idle", id |-> 0, caller |-> "",
     post_id |-> -1, user_id |-> "", request_id |-> -1,
     current_user |-> NoUser, like_id |-> -1, author_id |-> "",
     request_user |-> "", limit |-> 0, since |-> 0,
     user_data |-> NoUser, password_ok |-> FALSE,
     response |-> NoResponse, body |-> <<>>]

\* No store contents were recorded.
NoSnapshot == [users |-> <<>>, posts |-> <<>>, comments |-> {}, likes |-> {}]

\* What the history keeps of a call's arrival: the caller's stored role,
\* whether the verification request it names was already processed, whether
\* the post it names was missing and, for a deletePost call that arrives with
\* nothing else in flight, the contents of the store; for a trending query,
\* the time of the call; whether the caller's ban flag was set.
NotSeen ==
    [role |-> "", terminal |-> FALSE, missing |-> FALSE, at |-> NoSnapshot,
     now |-> 0, banned |-> FALSE]

\* No run of toggleLike calls is being followed.
NoRun ==
    [user |-> "", post |-> -1, n |-> 0, count0 |-> 0, liked0 |-> FALSE,
     before |-> 0, last |-> "", prev |-> ""]

---------------------------------------------------------------------------
(* Store operations *)

\* update_one({"id": id}, {"$inc": {"likes_count": d}}) on db.posts.
\* The like counter written with $set instead of $inc.
SetLikesCount(ps, id, d) ==
    IF id \in DOMAIN ps THEN [ps EXCEPT ![id].likes_count = d] ELSE ps

\* update_one({"id": id}, {"$inc": {"likes_count": d}}) on db.posts.
IncLikesCount(ps, id, d) ==
    IF id \in DOMAIN ps THEN [ps EXCEPT ![id].likes_count = @ + d] ELSE ps

\* update_one({"id": id}, {"$inc": {"comments_count": d}}) on db.posts.
IncCommentsCount(ps, id, d) ==
    IF id \in DOMAIN ps THEN [ps EXCEPT ![id].comments_count = @ + d] ELSE ps

\* update_one({"id": id}, {"$inc": {"posts_count": d}}) on db.users.
IncPostsCount(us, id, d) ==
    IF id \in DOMAIN us THEN [us EXCEPT ![id].posts_count = @ + d] ELSE us

\* delete_one({"id": id}) on db.posts.
DeletePost(ps, id) == [q \in DOMAIN ps \ {id} |-> ps[q]]

\* find({"user_id": u, "post_id": q}) on db.likes.
LikesOf(u, q) == {l \in likes : l.user_id = u /\ l.post_id = q}

\* find({"user_id": u, "status": "pending"}) on db.verification_requests.
PendingOf(u) ==
    {r \in DOMAIN reqs : reqs[r].user_id = u /\ reqs[r].status = "pending"}

---------------------------------------------------------------------------
(* Control *)

Free(p) == proc[p].pc \in {"idle", "done"}
Quiescent == \A p \in Procs : Free(p)

\* History: a toggleLike call that arrives with nothing else running starts
\* or continues a run on its pair; any other arrival ends the run.
RunAtCall(op, caller, post_id) ==
    IF op = "toggle_like_post" /\ Quiescent /\ caller \in DOMAIN users
       /\ post_id \in DOMAIN posts
    THEN IF run.user = caller /\ run.post = post_id
         THEN [run EXCEPT !.before = posts[post_id].likes_count]
         ELSE [user |-> caller, post |-> post_id, n |-> 0,
               count0 |-> posts[post_id].likes_count,
               liked0 |-> LikesOf(caller, post_id) # {},
               before |-> posts[post_id].likes_count,
               last |-> "", prev |-> ""]
    ELSE NoRun

\* History: the call of the run has returned.
RunAtReturn(response) ==
    IF run = NoRun THEN NoRun
    ELSE IF response.status # 200 THEN NoRun
    ELSE [run EXCEPT !.n = @ + 1, !.prev = run.last, !.last = response.detail]

\* The handler goes on to its next await.
Goto(p, pc) ==
    /\ proc' = [proc EXCEPT ![p].pc = pc]
    /\ UNCHANGED <<nextId, seen, run>>

\* The handler returns or raises: its locals are gone, its response stays.
Return(p, response) ==
    /\ proc' = [proc EXCEPT ![p] =
                   [Idle EXCEPT !.op = proc[p].op, !.pc = "done",
                                !.response = response]]
    /\ run' = RunAtReturn(response)
    /\ UNCHANGED <<nextId, seen>>

\* The handler returns a list of documents.
ReturnList(p, response, body) ==
    /\ proc' = [proc EXCEPT ![p] =
                   [Idle EXCEPT !.op = proc[p].op, !.pc = "done",
                                !.response = response, !.body = body]]
    /\ run' = RunAtReturn(response)
    /\ UNCHANGED <<nextId, seen>>

\* The first await of each handler, after its dependencies resolved.
FirstStep(op) ==
    CASE op = "toggle_like_post" -> "toggle_find_post"
      [] op = "create_comment" -> "comment_find_post"
      [] op = "create_post" -> "post_insert"
      [] op = "delete_post_admin" -> "delete_find_post"
      [] op = "get_post_comments" -> "comments_find_post"
      [] op = "get_trending_posts" -> "trending_find_posts"
      [] op = "register" -> "register_find"
      [] op = "login" -> "login_find"
      [] op = "request_verification" -> "request_find_pending"
      [] op = "approve_verification" -> "approve_find"
      [] op = "reject_verification" -> "reject_find"
      [] op = "ban_user" -> "ban_find"
      [] op = "unban_user" -> "unban_find"
      [] OTHER -> "admin_read"

AdminOps ==
    {"approve_verification", "reject_verification", "ban_user", "unban_user",
     "get_admin_stats", "get_all_users", "get_verification_requests"}
ModeratorOps == {"delete_post_admin"}
---------------------------------------------------------------------------
(* Authorization Guard *)

\* get_admin_user as it would be if it let moderators through.
get_admin_user_lax(current_user) ==
    current_user.role \in {"moderator", "admin", "super_admin"}

get_admin_user(current_user) ==
    current_user.role \in {"admin", "super_admin"}

get_moderator_user(current_user) ==
    current_user.role \in {"moderator", "admin", "super_admin"}

\* The dependencies of a route as they would be if create_post and
\* create_comment did not look at the ban flag.
DeniedByRoleOnly(op, current_user) ==
    IF op \in AdminOps /\ ~get_admin_user(current_user)
    THEN Response(403, "Admin access required")
    ELSE IF op \in ModeratorOps /\ ~get_moderator_user(current_user)
    THEN Response(403, "Moderator access required")
    ELSE NoResponse

\* The dependencies of a route, and the ban check that opens create_post and
\* create_comment, once get_current_user has read the caller's document.
Denied(op, current_user) ==
    IF op \in AdminOps /\ ~get_admin_user(current_user)
    THEN Response(403, "Admin access required")
    ELSE IF op \in ModeratorOps /\ ~get_moderator_user(current_user)
    THEN Response(403, "Moderator access required")
    ELSE IF op = "create_post" /\ current_user.is_banned
    THEN Response(403, "Account suspended - cannot create posts")
    ELSE IF op = "create_comment" /\ current_user.is_banned
    THEN Response(403, "Account suspended - cannot comment")
    ELSE NoResponse

\* The worker as the request reaches it: the route's parameters, a fresh uuid4.
Arrived(op, caller, post_id, user_id, request_id) ==
    [Idle EXCEPT !.op = op, !.id = nextId, !.caller = caller,
                 !.post_id = post_id, !.user_id = user_id,
                 !.request_id = request_id]

\* get_current_user and the route's dependencies: the call's first store read.
get_current_user(p, call) ==
    IF call.caller \notin DOMAIN users
    THEN [call EXCEPT !.pc = "done", !.id = 0, !.caller = "", !.post_id = -1,
                      !.user_id = "", !.request_id = -1,
                      !.response = Response(401, "User not found")]
    ELSE IF Denied(call.op, users[call.caller]) # NoResponse
    THEN [call EXCEPT !.pc = "done", !.id = 0, !.caller = "", !.post_id = -1,
                      !.user_id = "", !.request_id = -1,
                      !.response = Denied(call.op, users[call.caller])]
    ELSE [call EXCEPT !.pc = FirstStep(call.op),
                      !.current_user = users[call.caller]]

\* A request reaches a free worker (the lowest one: workers are
\* interchangeable) and the call begins.
Call(p, op, caller, post_id, user_id, request_id) ==
    /\ Free(p)
    /\ \A q \in Procs : Free(q) => p <= q
    /\ proc' = [proc EXCEPT ![p] =
                   get_current_user(p, Arrived(op, caller, post_id, user_id, request_id))]
    /\ nextId' = nextId + 1
    /\ seen' = [seen EXCEPT ![p] =
                   [role |-> IF caller \in DOMAIN users THEN users[caller].role ELSE "",
                    terminal |-> /\ request_id \in DOMAIN reqs
                                 /\ reqs[request_id].status # "pending",
                    missing |-> post_id \notin DOMAIN posts,
                    at |-> IF op = "delete_post_admin" /\ Quiescent
                           THEN [users |-> users, posts |-> posts,
                                 comments |-> comments, likes |-> likes]
                           ELSE NoSnapshot,
                    now |-> 0,
                    banned |-> caller \in DOMAIN users /\ users[caller].is_banned]]
    /\ run' = RunAtCall(op, caller, post_id)
    /\ UNCHANGED db

---------------------------------------------------------------------------
(* Accounts: register, login *)

\* The uuid4 that User() draws in the call with a given id.
UserIds == <<"id1", "id2", "id3", "id4", "id5", "id6">>

\* A register request reaches a free worker: UserCreate carries the username,
\* the email and, from UserBase, the role and is_verified fields (usernames
\* here are of the format validate_username accepts).
CallRegister(p, username, email, role, is_verified) ==
    /\ Free(p)
    /\ \A q \in Procs : Free(q) => p <= q
    /\ proc' = [proc EXCEPT ![p] =
                   [Arrived("register", "", -1, "", -1) EXCEPT
                       !.pc = "register_find",
                       !.user_data = [UserDoc(username, role, is_verified)
                                         EXCEPT !.email = email]]]
    /\ nextId' = nextId + 1
    /\ seen' = [seen EXCEPT ![p] = NotSeen]
    /\ run' = NoRun
    /\ UNCHANGED db

RegisterFind(p) ==
    /\ proc[p].pc = "register_find"
    /\ LET existing == {u \in DOMAIN users :
                            \/ users[u].username = proc[p].user_data.username
                            \/ users[u].email = proc[p].user_data.email}
       IN  IF existing = {}
           THEN Goto(p, "register_insert")
           ELSE \E existing_user \in existing :
                   Return(p, IF users[existing_user].username = proc[p].user_data.username
                             THEN Response(400, "Username already taken")
                             ELSE Response(400, "Email already registered"))
    /\ UNCHANGED db

\* user_doc is user_data without the password, with the defaults of User and
\* with is_banned False.
RegisterInsert(p) ==
    /\ proc[p].pc = "register_insert"
    /\ users' = (UserIds[proc[p].id] :> proc[p].user_data) @@ users
    /\ Return(p, Response(200, "bearer"))
    /\ UNCHANGED <<posts, comments, likes, reqs, clock>>

\* A login request reaches a free worker, with the right password or not.
CallLogin(p, username, password_ok) ==
    /\ Free(p)
    /\ \A q \in Procs : Free(q) => p <= q
    /\ proc' = [proc EXCEPT ![p] =
                   [Arrived("login", "", -1, "", -1) EXCEPT
                       !.pc = "login_find",
                       !.user_data = UserDoc(username, "", FALSE),
                       !.password_ok = password_ok]]
    /\ nextId' = nextId + 1
    /\ seen' = [seen EXCEPT ![p] = NotSeen]
    /\ run' = NoRun
    /\ UNCHANGED db

LoginFind(p) ==
    /\ proc[p].pc = "login_find"
    /\ LET found == {u \in DOMAIN users :
                         users[u].username = proc[p].user_data.username}
       IN  IF found = {} \/ ~proc[p].password_ok
           THEN Return(p, Response(401, "Invalid username or password"))
           ELSE \E user \in found :
                   Return(p, IF users[user].is_banned
                             THEN Response(403, "Account has been suspended")
                             ELSE Response(200, "bearer"))
    /\ UNCHANGED db

AccountStep(p) ==
    \/ RegisterFind(p)
    \/ RegisterInsert(p)
    \/ LoginFind(p)

---------------------------------------------------------------------------
(* Engagement Ledger: toggle_like_post *)

\* toggle_like_post as it would be without the lookup of the post.
ToggleFindPostUnchecked(p) ==
    /\ proc[p].pc = "toggle_find_post"
    /\ Goto(p, "toggle_find_like")
    /\ UNCHANGED db

ToggleFindPost(p) ==
    /\ proc[p].pc = "toggle_find_post"
    /\ IF proc[p].post_id \notin DOMAIN posts
       THEN Return(p, Response(404, "Post not found"))
       ELSE Goto(p, "toggle_find_like")
    /\ UNCHANGED db

\* find_one returns one of the matching documents, or None.
ToggleFindLike(p) ==
    /\ proc[p].pc = "toggle_find_like"
    /\ LET existing == LikesOf(proc[p].caller, proc[p].post_id) IN
       IF existing = {}
       THEN Goto(p, "toggle_insert_like")
       ELSE \E existing_like \in existing :
               /\ proc' = [proc EXCEPT ![p].pc = "toggle_delete_like",
                                       ![p].like_id = existing_like.id]
               /\ UNCHANGED <<nextId, seen, run>>
    /\ UNCHANGED db

ToggleDeleteLike(p) ==
    /\ proc[p].pc = "toggle_delete_like"
    /\ likes' = {l \in likes : l.id # proc[p].like_id}
    /\ Goto(p, "toggle_dec_likes")
    /\ UNCHANGED <<users, posts, comments, reqs, clock>>

ToggleDecLikes(p) ==
    /\ proc[p].pc = "toggle_dec_likes"
    /\ posts' = IncLikesCount(posts, proc[p].post_id, -1)
    /\ Return(p, Response(200, "Post unliked"))
    /\ UNCHANGED <<users, comments, likes, reqs, clock>>

ToggleInsertLike(p) ==
    /\ proc[p].pc = "toggle_insert_like"
    /\ likes' = likes \cup {LikeDoc(proc[p].id, proc[p].caller, proc[p].post_id)}
    /\ Goto(p, "toggle_inc_likes")
    /\ UNCHANGED <<users, posts, comments, reqs, clock>>

ToggleIncLikes(p) ==
    /\ proc[p].pc = "toggle_inc_likes"
    /\ posts' = IncLikesCount(posts, proc[p].post_id, 1)
    /\ Return(p, Response(200, "Post liked"))
    /\ UNCHANGED <<users, comments, likes, reqs, clock>>

---------------------------------------------------------------------------
(* Content Store: create_post, create_comment, delete_post_admin *)

PostInsert(p) ==
    /\ proc[p].pc = "post_insert"
    /\ posts' = (proc[p].id :> PostDoc(proc[p].caller, proc[p].current_user, clock))
                    @@ posts
    /\ clock' = clock + 1
    /\ Goto(p, "post_inc_user")
    /\ UNCHANGED <<users, comments, likes, reqs>>

\* create_post as it would be if it counted the post twice.
PostIncUserTwice(p) ==
    /\ proc[p].pc = "post_inc_user"
    /\ users' = IncPostsCount(users, proc[p].caller, 2)
    /\ Return(p, Response(200, "Post created"))
    /\ UNCHANGED <<posts, comments, likes, reqs, clock>>

PostIncUser(p) ==
    /\ proc[p].pc = "post_inc_user"
    /\ users' = IncPostsCount(users, proc[p].caller, 1)
    /\ Return(p, Response(200, "Post created"))
    /\ UNCHANGED <<posts, comments, likes, reqs, clock>>

CommentFindPost(p) ==
    /\ proc[p].pc = "comment_find_post"
    /\ IF proc[p].post_id \notin DOMAIN posts
       THEN Return(p, Response(404, "Post not found"))
       ELSE Goto(p, "comment_insert")
    /\ UNCHANGED db

CommentInsert(p) ==
    /\ proc[p].pc = "comment_insert"
    /\ comments' = comments \cup
           {CommentDoc(proc[p].id, proc[p].post_id, proc[p].caller,
                       proc[p].current_user)}
    /\ Goto(p, "comment_inc_post")
    /\ UNCHANGED <<users, posts, likes, reqs, clock>>

\* create_comment as it would be if it left the post's counter alone.
CommentIncPostForgotten(p) ==
    /\ proc[p].pc = "comment_inc_post"
    /\ Return(p, Response(200, "Comment created"))
    /\ UNCHANGED db

CommentIncPost(p) ==
    /\ proc[p].pc = "comment_inc_post"
    /\ posts' = IncCommentsCount(posts, proc[p].post_id, 1)
    /\ Return(p, Response(200, "Comment created"))
    /\ UNCHANGED <<users, comments, likes, reqs, clock>>

\* A request for a route without dependencies reaches a free worker.
CallPublic(p, op, post_id) ==
    /\ Free(p)
    /\ \A q \in Procs : Free(q) => p <= q
    /\ proc' = [proc EXCEPT ![p] =
                   [Arrived(op, "", post_id, "", -1) EXCEPT !.pc = FirstStep(op)]]
    /\ nextId' = nextId + 1
    /\ seen' = [seen EXCEPT ![p] =
                   [NotSeen EXCEPT !.missing = post_id \notin DOMAIN posts]]
    /\ run' = NoRun
    /\ UNCHANGED db

\* The ids of a set of documents, in ascending order.
RECURSIVE Ascending(_)
Ascending(ids) ==
    IF ids = {} THEN <<>>
    ELSE LET least == CHOOSE i \in ids : \A j \in ids : i <= j
         IN  <<least>> \o Ascending(ids \ {least})

\* get_post_comments with the default skip and limit.
CommentsFindPost(p) ==
    /\ proc[p].pc = "comments_find_post"
    /\ IF proc[p].post_id \notin DOMAIN posts
       THEN Return(p, Response(404, "Post not found"))
       ELSE Goto(p, "comments_find")
    /\ UNCHANGED db

\* Comments come sorted by created_at, which is the order of their ids when
\* the calls that made them were served one after the other.
CommentsFind(p) ==
    /\ proc[p].pc = "comments_find"
    /\ ReturnList(p, Response(200, "OK"),
                  Ascending({c.id : c \in {d \in comments : d.post_id = proc[p].post_id}}))
    /\ UNCHANGED db

DeleteFindPost(p) ==
    /\ proc[p].pc = "delete_find_post"
    /\ IF proc[p].post_id \notin DOMAIN posts
       THEN Return(p, Response(404, "Post not found"))
       ELSE /\ proc' = [proc EXCEPT ![p].pc = "delete_post",
                                    ![p].author_id = posts[proc[p].post_id].author_id]
            /\ UNCHANGED <<nextId, seen, run>>
    /\ UNCHANGED db

DeleteThePost(p) ==
    /\ proc[p].pc = "delete_post"
    /\ posts' = DeletePost(posts, proc[p].post_id)
    /\ Goto(p, "delete_comments")
    /\ UNCHANGED <<users, comments, likes, reqs, clock>>

\* delete_post_admin as it would be if it adjusted the author's counter while
\* the likes of the post are still to be removed.
DeleteCommentsThenDec(p) ==
    /\ proc[p].pc = "delete_comments"
    /\ comments' = {c \in comments : c.post_id # proc[p].post_id}
    /\ users' = IncPostsCount(users, proc[p].author_id, -1)
    /\ Goto(p, "delete_likes")
    /\ UNCHANGED <<posts, likes, reqs, clock>>

\* delete_many({"post_id": post_id}) on db.comments.
DeleteComments(p) ==
    /\ proc[p].pc = "delete_comments"
    /\ comments' = {c \in comments : c.post_id # proc[p].post_id}
    /\ Goto(p, "delete_likes")
    /\ UNCHANGED <<users, posts, likes, reqs, clock>>

\* delete_post_admin as it would be if it left the likes of the post behind.
DeleteLikesForgotten(p) ==
    /\ proc[p].pc = "delete_likes"
    /\ Goto(p, "delete_dec_user")
    /\ UNCHANGED db

DeleteLikes(p) ==
    /\ proc[p].pc = "delete_likes"
    /\ likes' = {l \in likes : l.post_id # proc[p].post_id}
    /\ Goto(p, "delete_dec_user")
    /\ UNCHANGED <<users, posts, comments, reqs, clock>>

DeleteDecUser(p) ==
    /\ proc[p].pc = "delete_dec_user"
    /\ users' = IncPostsCount(users, proc[p].author_id, -1)
    /\ Return(p, Response(200, "Post deleted successfully"))
    /\ UNCHANGED <<posts, comments, likes, reqs, clock>>

EngagementStep(p) ==
    \/ ToggleFindPost(p)
    \/ ToggleFindLike(p)
    \/ ToggleDeleteLike(p)
    \/ ToggleDecLikes(p)
    \/ ToggleInsertLike(p)
    \/ ToggleIncLikes(p)
    \/ PostInsert(p)
    \/ PostIncUser(p)
    \/ CommentFindPost(p)
    \/ CommentInsert(p)
    \/ CommentIncPost(p)
    \/ DeleteFindPost(p)
    \/ DeleteThePost(p)
    \/ DeleteComments(p)
    \/ DeleteLikes(p)
    \/ DeleteDecUser(p)

---------------------------------------------------------------------------
(* Ranking Engine: get_trending_posts *)

\* sort([("likes_count", -1), ("comments_count", -1), ("created_at", -1)]) as
\* it would be without its second key.
PrecedesByLikesOnly(a, b) ==
    \/ posts[a].likes_count > posts[b].likes_count
    \/ /\ posts[a].likes_count = posts[b].likes_count
       /\ posts[a].created_at > posts[b].created_at

\* sort([("likes_count", -1), ("comments_count", -1), ("created_at", -1)]):
\* post a must come before post b.
Precedes(a, b) ==
    \/ posts[a].likes_count > posts[b].likes_count
    \/ /\ posts[a].likes_count = posts[b].likes_count
       /\ posts[a].comments_count > posts[b].comments_count
    \/ /\ posts[a].likes_count = posts[b].likes_count
       /\ posts[a].comments_count = posts[b].comments_count
       /\ posts[a].created_at > posts[b].created_at

\* The orders in which the store can return the posts ids: one that no other
\* must precede comes first (posts equal on all three keys come in any order).
RECURSIVE Sorted(_)
Sorted(ids) ==
    IF ids = {} THEN {<<>>}
    ELSE UNION {{<<first>> \o rest : rest \in Sorted(ids \ {first})} :
                   first \in {a \in ids : \A b \in ids : ~Precedes(b, a)}}

\* limit(n) for a positive n.
Limit(list, n) == IF Len(list) <= n THEN list ELSE SubSeq(list, 1, n)

\* find({"created_at": {"$gte": since}}) on db.posts.
CreatedSince(since) == {q \in DOMAIN posts : posts[q].created_at >= since}

\* A trending query reaches a free worker; once the caller is known the
\* handler computes the start of the window from the time it is.
CallTrending(p, caller, limit) ==
    /\ Free(p)
    /\ \A q \in Procs : Free(q) => p <= q
    /\ proc' = [proc EXCEPT ![p] =
                   get_current_user(p,
                       [Arrived("get_trending_posts", caller, -1, "", -1)
                           EXCEPT !.limit = limit, !.since = clock - Day])]
    /\ nextId' = nextId + 1
    /\ seen' = [seen EXCEPT ![p] =
                   [NotSeen EXCEPT !.role = users[caller].role, !.now = clock]]
    /\ run' = NoRun
    /\ UNCHANGED db

TrendingFindPosts(p) ==
    /\ proc[p].pc = "trending_find_posts"
    /\ \E found \in Sorted(CreatedSince(proc[p].since)) :
          proc' = [proc EXCEPT ![p].pc = "trending_find_likes",
                               ![p].body = Limit(found, proc[p].limit)]
    /\ UNCHANGED <<nextId, seen, run>>
    /\ UNCHANGED db

\* The likes of the caller are read to mark the posts; the list stays as it is.
TrendingFindLikes(p) ==
    /\ proc[p].pc = "trending_find_likes"
    /\ ReturnList(p, Response(200, "OK"), proc[p].body)
    /\ UNCHANGED db

\* Time passes.
Tick ==
    /\ clock < MaxClock
    /\ clock' = clock + 1
    /\ UNCHANGED <<users, posts, comments, likes, reqs, nextId, proc, seen, run>>

---------------------------------------------------------------------------
(* Moderation Workflow: request_verification, approve, reject, ban, unban *)

RequestFindPending(p) ==
    /\ proc[p].pc = "request_find_pending"
    /\ IF PendingOf(proc[p].caller) # {}
       THEN Return(p, Response(400, "You already have a pending verification request"))
       ELSE IF proc[p].current_user.is_verified
       THEN Return(p, Response(400, "User is already verified"))
       ELSE Goto(p, "request_insert")
    /\ UNCHANGED db

RequestInsert(p) ==
    /\ proc[p].pc = "request_insert"
    /\ reqs' = (proc[p].id :> VerificationRequest(proc[p].caller, proc[p].current_user))
                   @@ reqs
    /\ Return(p, Response(200, "Verification request submitted successfully"))
    /\ UNCHANGED <<users, posts, comments, likes, clock>>

\* The opening of approve and reject as it would be without the status check.
FindRequestAnyStatus(p, next) ==
    IF proc[p].request_id \notin DOMAIN reqs
    THEN Return(p, Response(404, "Verification request not found"))
    ELSE /\ proc' = [proc EXCEPT ![p].pc = next,
                                 ![p].request_user = reqs[proc[p].request_id].user_id]
         /\ UNCHANGED <<nextId, seen, run>>

\* The find_one and the status check that open approve and reject.
FindRequest(p, next) ==
    IF proc[p].request_id \notin DOMAIN reqs
    THEN Return(p, Response(404, "Verification request not found"))
    ELSE IF reqs[proc[p].request_id].status # "pending"
    THEN Return(p, Response(400, "Request has already been processed"))
    ELSE /\ proc' = [proc EXCEPT ![p].pc = next,
                                 ![p].request_user = reqs[proc[p].request_id].user_id]
         /\ UNCHANGED <<nextId, seen, run>>

\* update_one({"id": id}, {"$set": {status, reviewed_by, reviewed_at}}).
Review(rs, id, status, reviewer, now) ==
    IF id \in DOMAIN rs
    THEN [rs EXCEPT ![id].status = status, ![id].reviewed_by = reviewer,
                    ![id].reviewed_at = now]
    ELSE rs

\* update_one({"id": id}, {"$set": {"is_verified": True}}) on db.users.
SetVerified(us, id) ==
    IF id \in DOMAIN us THEN [us EXCEPT ![id].is_verified = TRUE] ELSE us

\* update_one({"id": id}, {"$set": {"is_banned": flag}}) on db.users.
SetBanned(us, id, flag) ==
    IF id \in DOMAIN us THEN [us EXCEPT ![id].is_banned = flag] ELSE us

ApproveFind(p) ==
    /\ proc[p].pc = "approve_find"
    /\ FindRequest(p, "approve_update_request")
    /\ UNCHANGED db

ApproveUpdateRequest(p) ==
    /\ proc[p].pc = "approve_update_request"
    /\ reqs' = Review(reqs, proc[p].request_id, "approved", proc[p].caller, clock)
    /\ clock' = clock + 1
    /\ Goto(p, "approve_update_user")
    /\ UNCHANGED <<users, posts, comments, likes>>

\* approve_verification as it would be if it also refreshed the verified flag
\* kept in the user's posts.
ApproveUpdateUserAndPosts(p) ==
    /\ proc[p].pc = "approve_update_user"
    /\ users' = SetVerified(users, proc[p].request_user)
    /\ posts' = [q \in DOMAIN posts |->
                    IF posts[q].author_id = proc[p].request_user
                    THEN [posts[q] EXCEPT !.author_is_verified = TRUE]
                    ELSE posts[q]]
    /\ Return(p, Response(200, "User verified successfully"))
    /\ UNCHANGED <<comments, likes, reqs, clock>>

\* approve_verification as it would be if it left the user record alone.
ApproveUpdateUserForgotten(p) ==
    /\ proc[p].pc = "approve_update_user"
    /\ Return(p, Response(200, "User verified successfully"))
    /\ UNCHANGED db

ApproveUpdateUser(p) ==
    /\ proc[p].pc = "approve_update_user"
    /\ users' = SetVerified(users, proc[p].request_user)
    /\ Return(p, Response(200, "User verified successfully"))
    /\ UNCHANGED <<posts, comments, likes, reqs, clock>>

RejectFind(p) ==
    /\ proc[p].pc = "reject_find"
    /\ FindRequest(p, "reject_update_request")
    /\ UNCHANGED db

\* reject_verification as it would be with approve's write to the user record.
RejectUpdateRequestAndUser(p) ==
    /\ proc[p].pc = "reject_update_request"
    /\ reqs' = Review(reqs, proc[p].request_id, "rejected", proc[p].caller, clock)
    /\ users' = SetVerified(users, proc[p].request_user)
    /\ clock' = clock + 1
    /\ Return(p, Response(200, "Verification request rejected"))
    /\ UNCHANGED <<posts, comments, likes>>

RejectUpdateRequest(p) ==
    /\ proc[p].pc = "reject_update_request"
    /\ reqs' = Review(reqs, proc[p].request_id, "rejected", proc[p].caller, clock)
    /\ clock' = clock + 1
    /\ Return(p, Response(200, "Verification request rejected"))
    /\ UNCHANGED <<users, posts, comments, likes>>

\* The check of ban_user as it would be without the rule on admin targets.
BanCheckAnyRole(user_id) ==
    IF user_id \notin DOMAIN users
    THEN Response(404, "User not found")
    ELSE NoResponse

\* The target of ban_user must exist and must not be an admin.
BanCheck(user_id) ==
    IF user_id \notin DOMAIN users
    THEN Response(404, "User not found")
    ELSE IF users[user_id].role \in {"admin", "super_admin"}
    THEN Response(400, "Cannot ban admin users")
    ELSE NoResponse

BanFind(p) ==
    /\ proc[p].pc = "ban_find"
    /\ IF BanCheck(proc[p].user_id) # NoResponse
       THEN Return(p, BanCheck(proc[p].user_id))
       ELSE Goto(p, "ban_update")
    /\ UNCHANGED db

BanUpdate(p) ==
    /\ proc[p].pc = "ban_update"
    /\ users' = SetBanned(users, proc[p].user_id, TRUE)
    /\ Return(p, Response(200, "User has been banned"))
    /\ UNCHANGED <<posts, comments, likes, reqs, clock>>

\* unban_user as it would be under ban_user's rule on the target's role.
UnbanFindBelowAdmin(p) ==
    /\ proc[p].pc = "unban_find"
    /\ IF BanCheck(proc[p].user_id) # NoResponse
       THEN Return(p, BanCheck(proc[p].user_id))
       ELSE Goto(p, "unban_update")
    /\ UNCHANGED db

UnbanFind(p) ==
    /\ proc[p].pc = "unban_find"
    /\ IF proc[p].user_id \notin DOMAIN users
       THEN Return(p, Response(404, "User not found"))
       ELSE Goto(p, "unban_update")
    /\ UNCHANGED db

UnbanUpdate(p) ==
    /\ proc[p].pc = "unban_update"
    /\ users' = SetBanned(users, proc[p].user_id, FALSE)
    /\ Return(p, Response(200, "User has been unbanned"))
    /\ UNCHANGED <<posts, comments, likes, reqs, clock>>

\* get_admin_stats, get_all_users, get_verification_requests: reads only.
AdminRead(p) ==
    /\ proc[p].pc = "admin_read"
    /\ Return(p, Response(200, "OK"))
    /\ UNCHANGED db

ModerationStep(p) ==
    \/ RequestFindPending(p)
    \/ RequestInsert(p)
    \/ ApproveFind(p)
    \/ ApproveUpdateRequest(p)
    \/ ApproveUpdateUser(p)
    \/ RejectFind(p)
    \/ RejectUpdateRequest(p)
    \/ BanFind(p)
    \/ BanUpdate(p)
    \/ UnbanFind(p)
    \/ UnbanUpdate(p)

---------------------------------------------------------------------------
(* The engagement subsystem under concurrent requests *)

\* The posts a request can name: those stored, and the first post (which may
\* have been deleted).
PostArgs == DOMAIN posts \cup {0}

CallEngagement(p) ==
    \E caller \in DOMAIN users :
        \/ \E post_id \in PostArgs : Call(p, "toggle_like_post", caller, post_id, "", -1)
        \/ \E post_id \in PostArgs : Call(p, "create_comment", caller, post_id, "", -1)
        \/ Call(p, "create_post", caller, -1, "", -1)
        \/ \E post_id \in PostArgs : Call(p, "delete_post_admin", caller, post_id, "", -1)

\* alice registered, wrote post 0, and may have liked it and commented on it;
\* mod registered as a moderator.
InitEng ==
    /\ \E liked \in BOOLEAN, commented \in BOOLEAN :
        /\ likes = IF liked THEN {LikeDoc(0, "alice", 0)} ELSE {}
        /\ comments = IF commented
                      THEN {CommentDoc(0, 0, "alice", UserDoc("alice", "user", FALSE))}
                      ELSE {}
        /\ posts = (0 :> [PostDoc("alice", UserDoc("alice", "user", FALSE), 0)
                            EXCEPT !.likes_count = IF liked THEN 1 ELSE 0,
                                   !.comments_count = IF commented THEN 1 ELSE 0])
    /\ users = ("alice" :> [UserDoc("alice", "user", FALSE) EXCEPT !.posts_count = 1])
               @@ ("mod" :> UserDoc("mod", "moderator", FALSE))
    /\ reqs = <<>>
    /\ clock = 1
    /\ nextId = 1
    /\ proc = [p \in Procs |-> Idle]
    /\ seen = [p \in Procs |-> NotSeen]
    /\ run = NoRun

NextEng ==
    \E p \in Procs : (nextId <= MaxOps /\ CallEngagement(p)) \/ EngagementStep(p)

SpecEng == InitEng /\ [][NextEng]_vars

---------------------------------------------------------------------------
(* toggle_like_post alone, under concurrent requests *)

CallToggleLike(p) ==
    \E caller \in DOMAIN users : \E post_id \in PostArgs :
        Call(p, "toggle_like_post", caller, post_id, "", -1)

NextLike ==
    \E p \in Procs :
        \/ (nextId <= MaxLikeOps /\ CallToggleLike(p))
        \/ ToggleFindPost(p)
        \/ ToggleFindLike(p)
        \/ ToggleDeleteLike(p)
        \/ ToggleDecLikes(p)
        \/ ToggleInsertLike(p)
        \/ ToggleIncLikes(p)

SpecLike == InitEng /\ [][NextLike]_vars

---------------------------------------------------------------------------
(* The moderation workflow under concurrent requests *)

\* The requests a call can name: those stored, and one that is not.
RequestArgs == DOMAIN reqs \cup {-2}
\* The users a call can name: those stored, and one that is not.
UserArgs == DOMAIN users \cup {"nobody"}

CallModeration(p) ==
    \E caller \in DOMAIN users :
        \/ Call(p, "request_verification", caller, -1, "", -1)
        \/ \E request_id \in RequestArgs :
              Call(p, "approve_verification", caller, -1, "", request_id)
        \/ \E request_id \in RequestArgs :
              Call(p, "reject_verification", caller, -1, "", request_id)
        \/ \E user_id \in UserArgs : Call(p, "ban_user", caller, -1, user_id, -1)
        \/ \E user_id \in UserArgs : Call(p, "unban_user", caller, -1, user_id, -1)

\* The four accounts, one of each role, as register stores them.
Accounts ==
    ("alice" :> UserDoc("alice", "user", FALSE))
    @@ ("mod" :> UserDoc("mod", "moderator", FALSE))
    @@ ("root" :> UserDoc("root", "admin", FALSE))
    @@ ("boss" :> UserDoc("boss", "super_admin", FALSE))

\* A user and two admins; alice may have filed verification request 0, still
\* pending.
InitMod ==
    /\ users = [u \in {"alice", "root", "boss"} |-> Accounts[u]]
    /\ posts = <<>>
    /\ comments = {}
    /\ likes = {}
    /\ \E filed \in BOOLEAN :
          reqs = IF filed
                 THEN (0 :> VerificationRequest("alice", Accounts["alice"]))
                 ELSE <<>>
    /\ clock = 1
    /\ nextId = 1
    /\ proc = [p \in Procs |-> Idle]
    /\ seen = [p \in Procs |-> NotSeen]
    /\ run = NoRun

NextMod ==
    \E p \in Procs : (nextId <= MaxOps /\ CallModeration(p)) \/ ModerationStep(p)

SpecMod == InitMod /\ [][NextMod]_vars

---------------------------------------------------------------------------
(* The engagement subsystem, one request at a time *)

CallGetPostComments(p) ==
    \E post_id \in PostArgs : CallPublic(p, "get_post_comments", post_id)

NextSeq ==
    \E p \in Procs :
        \/ /\ Quiescent
           /\ nextId <= MaxSeqOps
           /\ (CallEngagement(p) \/ CallGetPostComments(p))
        \/ EngagementStep(p)
        \/ CommentsFindPost(p)
        \/ CommentsFind(p)

SpecSeq == InitEng /\ [][NextSeq]_vars

---------------------------------------------------------------------------
(* The role-gated routes, one request at a time *)

CallAdminRead(p) ==
    \E caller \in DOMAIN users :
        \E op \in {"get_admin_stats", "get_all_users", "get_verification_requests"} :
            Call(p, op, caller, -1, "", -1)

CallDeletePost(p) ==
    \E caller \in DOMAIN users :
        \E post_id \in PostArgs : Call(p, "delete_post_admin", caller, post_id, "", -1)

\* The four accounts; alice wrote post 0, liked it and commented on it.
InitGate ==
    /\ users = [Accounts EXCEPT !["alice"].posts_count = 1]
    /\ comments = {CommentDoc(0, 0, "alice", Accounts["alice"])}
    /\ likes = {LikeDoc(0, "alice", 0)}
    /\ posts = (0 :> [PostDoc("alice", Accounts["alice"], 0)
                        EXCEPT !.likes_count = 1, !.comments_count = 1])
    /\ reqs = <<>>
    /\ clock = 1
    /\ nextId = 1
    /\ proc = [p \in Procs |-> Idle]
    /\ seen = [p \in Procs |-> NotSeen]
    /\ run = NoRun

NextGate ==
    \E p \in Procs :
        \/ /\ Quiescent
           /\ nextId <= MaxGateOps
           /\ (CallModeration(p) \/ CallAdminRead(p) \/ CallDeletePost(p))
        \/ ModerationStep(p)
        \/ AdminRead(p)
        \/ DeleteFindPost(p)
        \/ DeleteThePost(p)
        \/ DeleteComments(p)
        \/ DeleteLikes(p)
        \/ DeleteDecUser(p)

SpecGate == InitGate /\ [][NextGate]_vars

---------------------------------------------------------------------------
(* Trending queries over a store of liked and commented posts *)

\* The like and comment counts a post of this store can have.
Engagements == {<<5, 2>>, <<5, 1>>, <<3, 9>>}

\* alice and the five users who like her posts.
Likers == <<"u1", "u2", "u3", "u4", "u5">>

\* alice wrote MaxPosts posts, one per tick, in some order of their ids; each
\* has got its likes, from that many users, and its comments, from alice.
InitTrend ==
    /\ \E created \in [0..(MaxPosts - 1) -> 0..(MaxPosts - 1)] :
       \E engagement \in [0..(MaxPosts - 1) -> Engagements] :
          /\ \A q, o \in 0..(MaxPosts - 1) : created[q] = created[o] => q = o
          /\ posts = [q \in 0..(MaxPosts - 1) |->
                         [PostDoc("alice", UserDoc("alice", "user", FALSE), created[q])
                             EXCEPT !.likes_count = engagement[q][1],
                                    !.comments_count = engagement[q][2]]]
          /\ likes = {LikeDoc(10 * q + k, Likers[k], q) :
                         q \in 0..(MaxPosts - 1), k \in 1..5}
                     \ {l \in {LikeDoc(10 * q + k, Likers[k], q) :
                                  q \in 0..(MaxPosts - 1), k \in 1..5} :
                           l.id - 10 * l.post_id > engagement[l.post_id][1]}
          /\ comments = {c \in {CommentDoc(10 * q + k, q, "alice",
                                            UserDoc("alice", "user", FALSE)) :
                                    q \in 0..(MaxPosts - 1), k \in 1..9} :
                            c.id - 10 * c.post_id <= engagement[c.post_id][2]}
    /\ users = [u \in {"alice"} \cup {Likers[k] : k \in 1..5} |->
                   IF u = "alice"
                   THEN [UserDoc("alice", "user", FALSE) EXCEPT !.posts_count = MaxPosts]
                   ELSE UserDoc(u, "user", FALSE)]
    /\ reqs = <<>>
    /\ clock = MaxPosts
    /\ nextId = 1
    /\ proc = [p \in Procs |-> Idle]
    /\ seen = [p \in Procs |-> NotSeen]
    /\ run = NoRun

NextTrend ==
    \/ \E p \in Procs :
          \/ /\ Quiescent
             /\ nextId <= MaxTrendOps
             /\ \E limit \in 1..MaxLimit : CallTrending(p, "alice", limit)
          \/ TrendingFindPosts(p)
          \/ TrendingFindLikes(p)
    \/ Tick

SpecTrend == InitTrend /\ [][NextTrend]_vars

---------------------------------------------------------------------------
(* Accounts and verification under concurrent requests *)

\* The usernames and emails a request can carry: one stored, one new.
Names == {"alice", "carol"}

\* What a register request can carry in its role field.
RoleArgs == {"user", "moderator", "admin", "super_admin"}

CallAccount(p) ==
    \/ \E username \in Names, email \in Names, role \in RoleArgs,
          is_verified \in BOOLEAN :
            CallRegister(p, username, email, role, is_verified)
    \/ \E username \in Names, password_ok \in BOOLEAN :
            CallLogin(p, username, password_ok)

CallVerification(p) ==
    \E caller \in DOMAIN users :
        \/ Call(p, "request_verification", caller, -1, "", -1)
        \/ \E request_id \in RequestArgs :
              Call(p, "approve_verification", caller, -1, "", request_id)
        \/ \E request_id \in RequestArgs :
              Call(p, "reject_verification", caller, -1, "", request_id)

VerificationStep(p) ==
    \/ RequestFindPending(p)
    \/ RequestInsert(p)
    \/ ApproveFind(p)
    \/ ApproveUpdateRequest(p)
    \/ ApproveUpdateUser(p)
    \/ RejectFind(p)
    \/ RejectUpdateRequest(p)

\* The verification routes alone, under concurrent requests.
NextVer ==
    \E p \in Procs : (nextId <= MaxOps /\ CallVerification(p)) \/ VerificationStep(p)

SpecVer == InitMod /\ [][NextVer]_vars

NextReg ==
    \E p \in Procs :
        \/ (nextId <= MaxOps /\ (CallAccount(p) \/ CallVerification(p)))
        \/ AccountStep(p)
        \/ VerificationStep(p)

\* From the store of the moderation workflow.
SpecReg == InitMod /\ [][NextReg]_vars

---------------------------------------------------------------------------
(* The routes a user calls for their own account, under concurrent requests *)

CallOwn(p) ==
    \/ CallAccount(p)
    \/ \E caller \in DOMAIN users :
          \/ Call(p, "request_verification", caller, -1, "", -1)
          \/ Call(p, "create_post", caller, -1, "", -1)
          \/ \E post_id \in PostArgs :
                Call(p, "create_comment", caller, post_id, "", -1)
          \/ \E post_id \in PostArgs :
                Call(p, "toggle_like_post", caller, post_id, "", -1)

NextOwn ==
    \E p \in Procs :
        \/ (nextId <= MaxOps /\ CallOwn(p))
        \/ AccountStep(p)
        \/ RequestFindPending(p)
        \/ RequestInsert(p)
        \/ ToggleFindPost(p)
        \/ ToggleFindLike(p)
        \/ ToggleDeleteLike(p)
        \/ ToggleDecLikes(p)
        \/ ToggleInsertLike(p)
        \/ ToggleIncLikes(p)
        \/ PostInsert(p)
        \/ PostIncUser(p)
        \/ CommentFindPost(p)
        \/ CommentInsert(p)
        \/ CommentIncPost(p)

\* From the store of the engagement subsystem.
SpecOwn == InitEng /\ [][NextOwn]_vars

---------------------------------------------------------------------------
(* Banned callers, under concurrent requests *)

CallBan(p) ==
    \/ \E user_id \in UserArgs : Call(p, "ban_user", "root", -1, user_id, -1)
    \/ \E user_id \in UserArgs : Call(p, "unban_user", "root", -1, user_id, -1)
    \/ \E caller \in DOMAIN users : Call(p, "create_post", caller, -1, "", -1)
    \/ \E caller \in DOMAIN users, post_id \in PostArgs :
          Call(p, "create_comment", caller, post_id, "", -1)
    \/ \E username \in Names, password_ok \in BOOLEAN :
          CallLogin(p, username, password_ok)

\* alice wrote post 0 and may have been banned since; root is an admin.
InitBan ==
    /\ \E is_banned \in BOOLEAN :
          users = ("alice" :> [UserDoc("alice", "user", FALSE)
                                  EXCEPT !.posts_count = 1, !.is_banned = is_banned])
                  @@ ("root" :> UserDoc("root", "admin", FALSE))
    /\ posts = (0 :> PostDoc("alice", UserDoc("alice", "user", FALSE), 0))
    /\ comments = {}
    /\ likes = {}
    /\ reqs = <<>>
    /\ clock = 1
    /\ nextId = 1
    /\ proc = [p \in Procs |-> Idle]
    /\ seen = [p \in Procs |-> NotSeen]
    /\ run = NoRun

NextBan ==
    \E p \in Procs :
        \/ (nextId <= MaxOps /\ CallBan(p))
        \/ BanFind(p)
        \/ BanUpdate(p)
        \/ UnbanFind(p)
        \/ UnbanUpdate(p)
        \/ PostInsert(p)
        \/ PostIncUser(p)
        \/ CommentFindPost(p)
        \/ CommentInsert(p)
        \/ CommentIncPost(p)
        \/ LoginFind(p)

SpecBan == InitBan /\ [][NextBan]_vars

---------------------------------------------------------------------------
(* Distinct users liking one post concurrently *)

Fans == {Likers[k] : k \in 1..MaxFans}

\* The n-th toggleLike call to arrive is the n-th fan's.
CallFan(p) == Call(p, "toggle_like_post", Likers[nextId], 0, "", -1)

\* alice wrote post 0 and may like it; no fan likes it.
InitFan ==
    /\ \E liked \in BOOLEAN :
        /\ likes = IF liked THEN {LikeDoc(0, "alice", 0)} ELSE {}
        /\ posts = (0 :> [PostDoc("alice", UserDoc("alice", "user", FALSE), 0)
                            EXCEPT !.likes_count = IF liked THEN 1 ELSE 0])
    /\ users = ("alice" :> [UserDoc("alice", "user", FALSE) EXCEPT !.posts_count = 1])
               @@ [u \in Fans |-> UserDoc(u, "user", FALSE)]
    /\ comments = {}
    /\ reqs = <<>>
    /\ clock = 1
    /\ nextId = 1
    /\ proc = [p \in Procs |-> Idle]
    /\ seen = [p \in Procs |-> NotSeen]
    /\ run = NoRun

\* A fan's call finds no like of theirs, so the unlike branch never runs.
NextFan ==
    \E p \in Procs :
        \/ (nextId <= MaxFans /\ CallFan(p))
        \/ ToggleFindPost(p)
        \/ ToggleFindLike(p)
        \/ ToggleInsertLike(p)
        \/ ToggleIncLikes(p)

SpecFan == InitFan /\ [][NextFan]_vars

---------------------------------------------------------------------------
(* Posts and comments of a user who is verified, banned and unbanned *)

CallSnap(p) ==
    \/ \E request_id \in RequestArgs :
          Call(p, "approve_verification", "root", -1, "", request_id)
    \/ Call(p, "ban_user", "root", -1, "alice", -1)
    \/ Call(p, "unban_user", "root", -1, "alice", -1)
    \/ Call(p, "create_post", "alice", -1, "", -1)
    \/ \E post_id \in PostArgs : Call(p, "create_comment", "alice", post_id, "", -1)
    \/ \E post_id \in PostArgs : Call(p, "toggle_like_post", "alice", post_id, "", -1)

\* alice wrote post 0 and a comment on it, then asked to be verified; root is
\* an admin.
InitSnap ==
    /\ users = ("alice" :> [UserDoc("alice", "user", FALSE) EXCEPT !.posts_count = 1])
               @@ ("root" :> UserDoc("root", "admin", FALSE))
    /\ posts = (0 :> [PostDoc("alice", UserDoc("alice", "user", FALSE), 0)
                        EXCEPT !.comments_count = 1])
    /\ comments = {CommentDoc(0, 0, "alice", UserDoc("alice", "user", FALSE))}
    /\ likes = {}
    /\ reqs = (0 :> VerificationRequest("alice", UserDoc("alice", "user", FALSE)))
    /\ clock = 1
    /\ nextId = 1
    /\ proc = [p \in Procs |-> Idle]
    /\ seen = [p \in Procs |-> NotSeen]
    /\ run = NoRun

NextSnap ==
    \E p \in Procs :
        \/ (nextId <= MaxOps /\ CallSnap(p))
        \/ ApproveFind(p)
        \/ ApproveUpdateRequest(p)
        \/ ApproveUpdateUser(p)
        \/ BanFind(p)
        \/ BanUpdate(p)
        \/ UnbanFind(p)
        \/ UnbanUpdate(p)
        \/ PostInsert(p)
        \/ PostIncUser(p)
        \/ CommentFindPost(p)
        \/ CommentInsert(p)
        \/ CommentIncPost(p)
        \/ ToggleFindPost(p)
        \/ ToggleFindLike(p)
        \/ ToggleDeleteLike(p)
        \/ ToggleDecLikes(p)
        \/ ToggleInsertLike(p)
        \/ ToggleIncLikes(p)

SpecSnap == InitSnap /\ [][NextSnap]_vars

---------------------------------------------------------------------------
(* Claims *)

\* The worker p took this step.
Stepped(p) == proc'[p] # proc[p]

\* C1: for every user U and post P, in every reachable state of every
\* interleaving of concurrent toggleLike(U,P) calls, at most one Like
\* relation is stored for the pair (U,P).
C1_AtMostOneLikePerPair ==
    \A u \in DOMAIN users : \A q \in PostArgs : Cardinality(LikesOf(u, q)) <= 1

\* C2: at every quiescent point every existing post's like counter equals the
\* number of Like relations that reference the post.
C2_LikeCounterConsistent ==
    Quiescent =>
        \A q \in DOMAIN posts :
            posts[q].likes_count = Cardinality({l \in likes : l.post_id = q})

\* C3: at every quiescent point every existing post's comment counter equals
\* the number of Comment records that reference the post.
C3_CommentCounterConsistent ==
    Quiescent =>
        \A q \in DOMAIN posts :
            posts[q].comments_count = Cardinality({c \in comments : c.post_id = q})

\* A create_comment call has succeeded on a post that still exists and now
\* carries the comment it was created with and the new one.
C3_Witness ==
    /\ Quiescent
    /\ \E p \in Procs :
          proc[p].op = "create_comment" /\ proc[p].response.status = 200
    /\ \E c \in comments :
          c.id >= 1 /\ c.post_id \in DOMAIN posts
          /\ posts[c.post_id].comments_count = 2

\* C4: toggleLike(U,P) calls repeated one after the other, nothing else
\* running, alternate between liked and unliked; each call moves P's like
\* counter by exactly 1, up when it inserts the relation and down when it
\* deletes it; after an even number of calls the counter and the existence of
\* the relation are what they were before the first call.
C4_ToggleAlternates ==
    (Quiescent /\ run.n >= 1) =>
        LET count == posts[run.post].likes_count
            liked == LikesOf(run.user, run.post) # {}
        IN  /\ run.post \in DOMAIN posts
            /\ run.last \in {"Post liked", "Post unliked"}
            /\ run.n >= 2 => run.last # run.prev
            /\ run.last = "Post liked" => count = run.before + 1
            /\ run.last = "Post unliked" => count = run.before - 1
            /\ run.n % 2 = 0 => (count = run.count0 /\ liked = run.liked0)

\* C5: a moderator or user calling an admin-gated route gets 403 Forbidden
\* and the store is unchanged; an admin or super_admin calling deletePost
\* passes the role check; a user calling deletePost gets 403 Forbidden.
C5_RoleGating ==
    [][\A p \in Procs :
          Stepped(p) =>
            LET call == proc'[p]
                role == seen'[p].role
            IN  /\ (call.op \in AdminOps /\ role \in {"user", "moderator"}) =>
                      /\ call.pc = "done"
                      /\ call.response.status = 403
                      /\ db' = db
                /\ (call.op = "delete_post_admin" /\ role \in {"admin", "super_admin"}) =>
                      call.response.status \notin {401, 403}
                /\ (call.op = "delete_post_admin" /\ role = "user") =>
                      /\ call.pc = "done"
                      /\ call.response.status = 403
                      /\ db' = db]_vars

\* A moderator has called an admin-gated route and was refused.
C5_Witness ==
    \E p \in Procs :
        /\ proc[p].op \in AdminOps
        /\ seen[p].role = "moderator"
        /\ proc[p].response.status = 403

\* C6: ban on a target whose role is admin or super_admin fails and leaves the
\* store unchanged, the target's role is not admin when the ban flag is
\* written, and no admin or super_admin ever has the ban flag set.
C6_NoAdminBanned ==
    [][/\ \A u \in DOMAIN users' :
             users'[u].role \in {"admin", "super_admin"} => ~users'[u].is_banned
       /\ \A p \in Procs :
             (Stepped(p) /\ proc[p].op = "ban_user" /\ ~Free(p)
              /\ proc[p].user_id \in DOMAIN users
              /\ users[proc[p].user_id].role \in {"admin", "super_admin"}) =>
                /\ proc[p].pc = "ban_find"
                /\ proc'[p].pc = "done"
                /\ proc'[p].response.status = 400
                /\ db' = db]_vars

\* An admin has tried to ban an admin and was refused.
C6_Witness ==
    \E p \in Procs :
        /\ proc[p].op = "ban_user"
        /\ proc[p].response = Response(400, "Cannot ban admin users")

\* C7: an approve or reject call that starts once the request is approved or
\* rejected ends with "Request has already been processed" and changes
\* neither the request nor any user.
C7_ProcessedIsFinal ==
    [][\A p \in Procs :
          (Stepped(p) /\ ~Free(p) /\ seen[p].terminal
           /\ proc[p].op \in {"approve_verification", "reject_verification"}) =>
              /\ proc'[p].pc = "done"
              /\ proc'[p].response = Response(400, "Request has already been processed")
              /\ reqs' = reqs
              /\ users' = users]_vars

\* A call that began on a processed request has been refused.
C7_Witness ==
    \E p \in Procs :
        /\ seen[p].terminal
        /\ proc[p].op \in {"approve_verification", "reject_verification"}
        /\ proc[p].response = Response(400, "Request has already been processed")

\* C8: once a request's status is approved or rejected, its status and its
\* reviewer never change again, whatever approve and reject calls interleave.
C8_TerminalStatusStable ==
    [][\A r \in DOMAIN reqs :
          reqs[r].status # "pending" =>
              /\ reqs'[r].status = reqs[r].status
              /\ reqs'[r].reviewed_by = reqs[r].reviewed_by]_vars

\* C9: in every reachable state each user has at most one pending
\* verification request.
C9_AtMostOnePending ==
    \A u \in DOMAIN users : Cardinality(PendingOf(u)) <= 1

\* C10: request_verification succeeds, inserting exactly one request that is
\* pending and has no reviewer, exactly when the caller is not verified and
\* has no pending request; otherwise it fails with 400 and inserts nothing.
C10_FileRequest ==
    [][\A p \in Procs :
          (Stepped(p) /\ ~Free(p) /\ proc[p].op = "request_verification") =>
              LET u == proc[p].caller
                  eligible == ~users[u].is_verified /\ PendingOf(u) = {}
                  new == DOMAIN reqs' \ DOMAIN reqs
              IN  /\ users' = users
                  /\ \A r \in DOMAIN reqs : reqs'[r] = reqs[r]
                  /\ proc'[p].pc # "done" => (eligible /\ new = {})
                  /\ (proc'[p].pc = "done" /\ eligible) =>
                        /\ proc'[p].response.status = 200
                        /\ Cardinality(new) = 1
                        /\ \A r \in new :
                              /\ reqs'[r].user_id = u
                              /\ reqs'[r].status = "pending"
                              /\ reqs'[r].reviewed_by = ""
                              /\ reqs'[r].reviewed_at = -1
                  /\ (proc'[p].pc = "done" /\ ~eligible) =>
                        /\ proc'[p].response.status = 400
                        /\ new = {}]_vars

\* The request r is reviewed in this step: it gets the status, the reviewer
\* and the time of the review, and nothing else of it changes.
Reviewed(r, status, reviewer) ==
    /\ r \in DOMAIN reqs'
    /\ reqs'[r] = [reqs[r] EXCEPT !.status = status, !.reviewed_by = reviewer,
                                  !.reviewed_at = clock]
    /\ reqs'[r].reviewed_at >= 0
    /\ DOMAIN reqs' = DOMAIN reqs
    /\ \A o \in DOMAIN reqs \ {r} : reqs'[o] = reqs[o]

\* C11: an approve call that finds its request pending goes on to set the
\* request's status to approved with the reviewer and the time of the review,
\* and returns success only as it sets the verified flag of the request's
\* user (and nothing else of any user); an approve call on a request that
\* does not exist ends with 404 and changes nothing.
C11_ApproveEffects ==
    [][\A p \in Procs :
          (Stepped(p) /\ ~Free(p) /\ proc[p].op = "approve_verification") =>
              LET r == proc[p].request_id IN
              /\ r \notin DOMAIN reqs =>
                    /\ proc'[p].pc = "done"
                    /\ proc'[p].response.status = 404
                    /\ db' = db
              /\ (proc[p].pc = "approve_find" /\ r \in DOMAIN reqs
                  /\ reqs[r].status = "pending") =>
                    /\ proc'[p].pc = "approve_update_request"
                    /\ db' = db
              /\ proc[p].pc = "approve_update_request" =>
                    /\ Reviewed(r, "approved", proc[p].caller)
                    /\ users' = users
                    /\ proc'[p].pc = "approve_update_user"
              /\ proc'[p].response.status = 200 =>
                    /\ proc[p].pc = "approve_update_user"
                    /\ reqs' = reqs
                    /\ DOMAIN users' = DOMAIN users
                    /\ \A u \in DOMAIN users :
                          users'[u] = IF u = reqs[r].user_id
                                      THEN [users[u] EXCEPT !.is_verified = TRUE]
                                      ELSE users[u]]_vars

\* An approve call has returned success: the request is approved, reviewed by
\* an admin at some time, and its user is verified.
C11_Witness ==
    \E p \in Procs : \E r \in DOMAIN reqs :
        /\ proc[p].op = "approve_verification"
        /\ proc[p].response.status = 200
        /\ reqs[r].status = "approved"
        /\ reqs[r].reviewed_by \in {"root", "boss"}
        /\ reqs[r].reviewed_at >= 1
        /\ users[reqs[r].user_id].is_verified

\* C12: a reject call that finds its request pending sets the request's
\* status to rejected with the reviewer and the time of the review and
\* returns success; no step of a reject call changes a user record or
\* another request.
C12_RejectEffects ==
    [][\A p \in Procs :
          (Stepped(p) /\ ~Free(p) /\ proc[p].op = "reject_verification") =>
              LET r == proc[p].request_id IN
              /\ users' = users
              /\ \A o \in DOMAIN reqs \ {r} : o \in DOMAIN reqs' /\ reqs'[o] = reqs[o]
              /\ (proc[p].pc = "reject_find" /\ r \in DOMAIN reqs
                  /\ reqs[r].status = "pending") =>
                    /\ proc'[p].pc = "reject_update_request"
                    /\ db' = db
              /\ proc[p].pc = "reject_update_request" =>
                    /\ Reviewed(r, "rejected", proc[p].caller)
                    /\ proc'[p].response.status = 200
              /\ proc'[p].response.status = 200 =>
                    proc[p].pc = "reject_update_request"]_vars

\* A reject call has returned success: the request is rejected, reviewed by
\* an admin, and its user is still not verified.
C12_Witness ==
    \E p \in Procs : \E r \in DOMAIN reqs :
        /\ proc[p].op = "reject_verification"
        /\ proc[p].response.status = 200
        /\ reqs[r].status = "rejected"
        /\ reqs[r].reviewed_by \in {"root", "boss"}
        /\ reqs[r].reviewed_at >= 1
        /\ ~users[reqs[r].user_id].is_verified

\* The deletePost call of worker p, which arrived with nothing else in flight,
\* returns success in this step: of the store as the call found it, the post
\* P is gone with every comment and like that referenced it, the comments and
\* likes of other posts are as they were, and the author's post counter is
\* lower by exactly 1.
Cascaded(p) ==
    LET P == proc[p].post_id
        was == seen[p].at
    IN  /\ P \in DOMAIN was.posts
        /\ P \notin DOMAIN posts'
        /\ posts' = [q \in DOMAIN was.posts \ {P} |-> was.posts[q]]
        /\ comments' = {c \in was.comments : c.post_id # P}
        /\ likes' = {l \in was.likes : l.post_id # P}
        /\ users' = [was.users EXCEPT
                        ![was.posts[P].author_id].posts_count = @ - 1]

\* C13 as the spec states it: a deletePost run to completion with nothing else
\* in flight removes P with its comments and likes, leaves the rest, and
\* decrements the author's post counter by 1; a later fetch of P's comments
\* returns the empty list.
C13_CascadeThenEmpty ==
    [][\A p \in Procs :
          /\ (Stepped(p) /\ proc[p].op = "delete_post_admin"
              /\ proc'[p].response.status = 200) => Cascaded(p)
          /\ (Stepped(p) /\ proc[p].op = "get_post_comments" /\ ~Free(p)
              /\ proc[p].post_id \notin DOMAIN posts) =>
                /\ proc'[p].response.status = 200
                /\ proc'[p].body = <<>>]_vars

\* C13, amended: the same cascade; a later fetch of P's comments fails with
\* 404 Not Found and returns no comment.
C13_CascadeThenNotFound ==
    [][\A p \in Procs :
          /\ (Stepped(p) /\ proc[p].op = "delete_post_admin"
              /\ proc'[p].response.status = 200) => Cascaded(p)
          /\ (Stepped(p) /\ proc[p].op = "get_post_comments" /\ ~Free(p)
              /\ proc[p].post_id \notin DOMAIN posts) =>
                /\ proc'[p].pc = "done"
                /\ proc'[p].response.status = 404
                /\ proc'[p].body = <<>>
                /\ db' = db]_vars

\* Post 0 was deleted while another post had a comment, which is still
\* there, and the fetch of post 0's comments that followed was refused.
C13_Witness ==
    /\ 0 \notin DOMAIN posts
    /\ users["alice"].posts_count + users["mod"].posts_count = Cardinality(DOMAIN posts)
    /\ \E c \in comments : c.post_id \in DOMAIN posts
    /\ \E p \in Procs :
          /\ proc[p].op = "get_post_comments"
          /\ proc[p].response.status = 404

\* C14: in no reachable state, the states between the store steps of a
\* running deletePost included, is a post absent from the store while a
\* comment that references it still exists.
C14_NoCommentOfAbsentPost ==
    \A c \in comments : c.post_id \in DOMAIN posts

\* C15: a toggleLike call made when its post does not exist ends with 404
\* Not Found at its first step and changes nothing in the store: no like is
\* inserted or deleted and no counter moves.
C15_ToggleMissingPost ==
    [][\A p \in Procs :
          (Stepped(p) /\ ~Free(p) /\ proc[p].op = "toggle_like_post"
           /\ seen[p].missing) =>
              /\ proc'[p].pc = "done"
              /\ proc'[p].response = Response(404, "Post not found")
              /\ db' = db]_vars

\* A toggleLike call on a post that had been deleted was refused.
C15_Witness ==
    \E p \in Procs :
        /\ proc[p].op = "toggle_like_post"
        /\ seen[p].missing
        /\ proc[p].response.status = 404

\* C16: a createPost call by A persists exactly one new post, whose like,
\* comment and repost counters are 0 and whose author snapshot is A's record
\* as the call read it, and returns success as it increments A's post counter
\* by exactly 1; its steps change no other post and no other user.
C16_CreatePost ==
    [][\A p \in Procs :
          (Stepped(p) /\ ~Free(p) /\ proc[p].op = "create_post") =>
              LET A == proc[p].caller
                  read == proc[p].current_user
                  new == DOMAIN posts' \ DOMAIN posts
              IN  /\ \A q \in DOMAIN posts : q \in DOMAIN posts' /\ posts'[q] = posts[q]
                  /\ comments' = comments /\ likes' = likes /\ reqs' = reqs
                  /\ proc[p].pc = "post_insert" =>
                        /\ Cardinality(new) = 1
                        /\ \A n \in new :
                              /\ posts'[n].author_id = A
                              /\ posts'[n].likes_count = 0
                              /\ posts'[n].comments_count = 0
                              /\ posts'[n].reposts_count = 0
                              /\ posts'[n].author_username = read.username
                              /\ posts'[n].author_display_name = read.display_name
                              /\ posts'[n].author_is_verified = read.is_verified
                        /\ users' = users
                        /\ proc'[p].pc = "post_inc_user"
                  /\ proc[p].pc # "post_insert" =>
                        /\ new = {}
                        /\ proc'[p].response.status = 200
                        /\ users' = [users EXCEPT ![A].posts_count = @ + 1]]_vars

\* A createPost call has succeeded: the caller's post is stored and counted.
C16_Witness ==
    \E p \in Procs : \E n \in DOMAIN posts :
        /\ proc[p].op = "create_post"
        /\ proc[p].response.status = 200
        /\ n >= 1
        /\ posts[n].author_id = "mod"
        /\ posts[n].likes_count = 0
        /\ users["mod"].posts_count = 1

\* C17: a createComment call on a post P that does not exist ends with 404
\* Not Found, inserts no comment and changes no counter; a call that succeeds
\* has inserted exactly one comment, which references the existing post P,
\* and increments P's comment counter by exactly 1.
C17_CreateComment ==
    [][\A p \in Procs :
          (Stepped(p) /\ ~Free(p) /\ proc[p].op = "create_comment") =>
              LET P == proc[p].post_id
                  new == comments' \ comments
              IN  /\ comments \subseteq comments'
                  /\ (proc[p].pc = "comment_find_post" /\ P \notin DOMAIN posts) =>
                        /\ proc'[p].pc = "done"
                        /\ proc'[p].response.status = 404
                        /\ db' = db
                  /\ proc[p].pc = "comment_insert" =>
                        /\ P \in DOMAIN posts
                        /\ Cardinality(new) = 1
                        /\ \A c \in new : c.post_id = P
                        /\ posts' = posts
                  /\ proc[p].pc # "comment_insert" => new = {}
                  /\ proc'[p].response.status = 200 =>
                        /\ proc[p].pc = "comment_inc_post"
                        /\ P \in DOMAIN posts
                        /\ posts' = [posts EXCEPT ![P].comments_count = @ + 1]]_vars

\* Post a ranks above post b: more likes, or as many likes and more comments,
\* or as many of both and created later.
RanksAbove(a, b) ==
    LET ka == <<posts[a].likes_count, posts[a].comments_count, posts[a].created_at>>
        kb == <<posts[b].likes_count, posts[b].comments_count, posts[b].created_at>>
    IN  \E i \in 1..3 : ka[i] > kb[i] /\ \A j \in 1..(i - 1) : ka[j] = kb[j]

\* C18: getTrendingPosts(N) returns the first N, or all if there are fewer, of
\* the posts created within the 24 hours before the time of the call, ordered
\* by like count descending, then comment count descending, then creation
\* time descending, and never a post older than 24 hours; three posts in the
\* window with (likes, comments) = (5,2), (5,1), (3,9) come in that order.
C18_Trending ==
    [][\A p \in Procs :
          (Stepped(p) /\ proc[p].op = "get_trending_posts"
           /\ proc'[p].response.status = 200) =>
              LET list == proc'[p].body
                  N == proc[p].limit
                  window == {q \in DOMAIN posts :
                                posts[q].created_at >= seen[p].now - Day}
                  returned == {list[i] : i \in 1..Len(list)}
                  engagement(q) == <<posts[q].likes_count, posts[q].comments_count>>
              IN  /\ Len(list) = IF Cardinality(window) < N
                                 THEN Cardinality(window) ELSE N
                  /\ returned \subseteq window
                  /\ \A i, j \in 1..Len(list) :
                        i < j => (list[i] # list[j] /\ ~RanksAbove(list[j], list[i]))
                  /\ \A q \in window \ returned :
                        \A i \in 1..Len(list) : ~RanksAbove(q, list[i])
                  /\ (Len(list) = 3
                      /\ {engagement(q) : q \in returned} = {<<5, 2>>, <<5, 1>>, <<3, 9>>}) =>
                        /\ engagement(list[1]) = <<5, 2>>
                        /\ engagement(list[2]) = <<5, 1>>
                        /\ engagement(list[3]) = <<3, 9>>]_vars

\* A trending query has returned the posts with (5,2), (5,1) and (3,9) in
\* that order, although the last of them is the newest.
C18_Witness ==
    \E p \in Procs :
        /\ proc[p].op = "get_trending_posts"
        /\ proc[p].response.status = 200
        /\ Len(proc[p].body) = 3
        /\ posts[proc[p].body[1]].comments_count = 2
        /\ posts[proc[p].body[2]].comments_count = 1
        /\ posts[proc[p].body[3]].likes_count = 3
        /\ posts[proc[p].body[3]].created_at > posts[proc[p].body[1]].created_at

\* C19: in every reachable state of register, fileVerificationRequest,
\* approve and reject calls, a user whose verified flag is true has a
\* verification request with status approved.
C19_VerifiedByApproval ==
    \A u \in DOMAIN users :
        users[u].is_verified =>
            \E r \in DOMAIN reqs :
                reqs[r].user_id = u /\ reqs[r].status = "approved"

\* C20: no step of a call a user makes for their own account (register,
\* login, createPost, createComment, toggleLike, fileVerificationRequest)
\* stores a user record with a role above user or changes the role or the
\* ban flag of a stored user.
C20_RoleAndBanNotOwn ==
    [][\A p \in Procs :
          (Stepped(p) /\ proc'[p].op \in
              {"register", "login", "create_post", "create_comment",
               "toggle_like_post", "request_verification"}) =>
              \A u \in DOMAIN users' :
                  IF u \in DOMAIN users
                  THEN /\ users'[u].role = users[u].role
                       /\ users'[u].is_banned = users[u].is_banned
                  ELSE /\ users'[u].role = "user"
                       /\ ~users'[u].is_banned]_vars

\* C21: a createPost or createComment call whose caller's ban flag is set
\* when the call begins ends with 403 Forbidden at once and leaves the store
\* unchanged (so none succeeds between a completed ban and the unban); so
\* does a login with the right password to an account whose ban flag is set
\* when login reads it, and it hands out no token.
C21_BannedDenied ==
    [][\A p \in Procs :
          Stepped(p) =>
              /\ (proc'[p].op \in {"create_post", "create_comment"}
                  /\ seen'[p].banned) =>
                    /\ proc'[p].pc = "done"
                    /\ proc'[p].response.status = 403
                    /\ db' = db
              /\ (proc[p].pc = "login_find" /\ proc[p].password_ok
                  /\ \E u \in DOMAIN users :
                        /\ users[u].username = proc[p].user_data.username
                        /\ users[u].is_banned) =>
                    /\ proc'[p].pc = "done"
                    /\ proc'[p].response.status = 403
                    /\ db' = db]_vars

\* After a ban of alice, a createPost call by her has been refused.
C21_Witness ==
    \E p, o \in Procs :
        /\ proc[o].op = "ban_user"
        /\ proc[o].response.status = 200
        /\ proc[p].op = "create_post"
        /\ seen[p].banned
        /\ proc[p].response = Response(403, "Account suspended - cannot create posts")
        /\ users["alice"].posts_count = 1

\* C22: the like counter and the comment counter of every post and the post
\* counter of every user are never negative.
C22_CountersNotNegative ==
    /\ \A id \in DOMAIN posts :
          posts[id].likes_count >= 0 /\ posts[id].comments_count >= 0
    /\ \A u \in DOMAIN users : users[u].posts_count >= 0

\* C23: when distinct users who have not liked post 0 each run one toggleLike
\* on it, concurrently and with nothing else running, every call takes the
\* like branch, and once the calls that have arrived have all returned there
\* is exactly one Like relation per caller and the like counter is its
\* initial value plus the number of calls.
C23_NoLostLike ==
    /\ \A p \in Procs : proc[p].pc \notin {"toggle_delete_like", "toggle_dec_likes"}
    /\ Quiescent =>
          /\ \A k \in 1..(nextId - 1) : Cardinality(LikesOf(Likers[k], 0)) = 1
          /\ Cardinality({l \in likes : l.post_id = 0 /\ l.user_id \in Fans})
                = nextId - 1
          /\ posts[0].likes_count
                = Cardinality(LikesOf("alice", 0)) + (nextId - 1)

\* All the fans have liked post 0, and two of the calls overlapped.
C23_Witness ==
    /\ Quiescent
    /\ nextId = MaxFans + 1
    /\ \A p \in Procs : proc[p].response = Response(200, "Post liked")
    /\ posts[0].likes_count = Cardinality(LikesOf("alice", 0)) + MaxFans

\* C24: within a single deletePost, the author's post counter is decremented
\* only after the comments and the likes of the post have been deleted: the
\* call changes the counter in its last step only, which removes nothing; it
\* reaches that step only from the step that deletes the likes, and that one
\* only from the step that deletes the comments; and at the decrement no
\* comment or like that referenced the post when the call arrived is left.
C24_DecrementAfterCascade ==
    [][\A p \in Procs :
          (Stepped(p) /\ proc[p].op = "delete_post_admin") =>
              LET P == proc[p].post_id
                  was == seen[p].at
              IN  /\ users' # users =>
                        /\ proc[p].pc = "delete_dec_user"
                        /\ comments' = comments
                        /\ likes' = likes
                  /\ proc[p].pc = "delete_dec_user" =>
                        /\ users' = IncPostsCount(users, proc[p].author_id, -1)
                        /\ was # NoSnapshot =>
                              /\ \A c \in was.comments :
                                    c.post_id = P => c \notin comments
                              /\ \A l \in was.likes :
                                    l.post_id = P => l \notin likes
                  /\ proc'[p].pc = "delete_dec_user" =>
                        /\ proc[p].pc = "delete_likes"
                        /\ \A l \in likes' : l.post_id # P
                  /\ proc'[p].pc = "delete_likes" =>
                        /\ proc[p].pc = "delete_comments"
                        /\ \A c \in comments' : c.post_id # P]_vars

\* A deletePost of post 0, which had a comment and a like, has returned: they
\* are gone and the author's counter is one lower.
C24_Witness ==
    \E p \in Procs :
        /\ proc[p].op = "delete_post_admin"
        /\ proc[p].response.status = 200
        /\ \E c \in seen[p].at.comments : c.post_id = 0
        /\ \E l \in seen[p].at.likes : l.post_id = 0
        /\ 0 \notin DOMAIN posts
        /\ \A c \in comments : c.post_id # 0
        /\ \A l \in likes : l.post_id # 0
        /\ users["alice"].posts_count = 0

\* The author snapshot of a post or comment document.
AuthorSnapshot(d) ==
    <<d.author_username, d.author_display_name, d.author_is_verified>>

\* C25: the author snapshot of a post or comment is never refreshed: no step
\* of any operation (approve, ban, unban, toggleLike, createPost,
\* createComment) changes the author username, display name or verified flag
\* kept in a post or comment that exists before and after the step.
C25_SnapshotNotRefreshed ==
    [][/\ \A q \in DOMAIN posts \cap DOMAIN posts' :
             AuthorSnapshot(posts'[q]) = AuthorSnapshot(posts[q])
       /\ \A c \in comments : \A d \in comments' :
             d.id = c.id => AuthorSnapshot(d) = AuthorSnapshot(c)]_vars

\* alice has been verified by an approval and banned, her like has counted on
\* post 0, and post 0 and her comment still say she is not verified.
C25_Witness ==
    /\ users["alice"].is_verified
    /\ reqs[0].status = "approved"
    /\ 0 \in DOMAIN posts
    /\ ~posts[0].author_is_verified
    /\ \E c \in comments : c.id = 0 /\ ~c.author_is_verified
    /\ \E p \in Procs : proc[p].op \in {"ban_user", "toggle_like_post"}
                        /\ proc[p].response.status = 200

\* C26: ban and unban, called by an admin: on a target that does not exist
\* both fail with 404 Not Found and write nothing; ban of a non-admin target,
\* banned already or not, succeeds and leaves its ban flag true; unban of a
\* target of any role, banned or not, succeeds and leaves its ban flag false
\* (so ban followed by unban restores false); and neither changes anything
\* in the store but the target's ban flag.
C26_BanUnban ==
    [][\A p \in Procs :
          (Stepped(p) /\ proc[p].op \in {"ban_user", "unban_user"} /\ ~Free(p)) =>
              LET target == proc[p].user_id
                  ban == proc[p].op = "ban_user"
              IN  /\ UNCHANGED <<posts, comments, likes, reqs, clock>>
                  /\ proc[p].pc \in {"ban_find", "unban_find"} =>
                        /\ users' = users
                        /\ target \notin DOMAIN users =>
                              /\ proc'[p].pc = "done"
                              /\ proc'[p].response.status = 404
                        /\ (/\ target \in DOMAIN users
                            /\ ~ban \/ users[target].role \notin {"admin", "super_admin"}) =>
                              proc'[p].pc \in {"ban_update", "unban_update"}
                  /\ proc[p].pc \in {"ban_update", "unban_update"} =>
                        /\ proc'[p].pc = "done"
                        /\ proc'[p].response.status = 200
                        /\ target \in DOMAIN users
                        /\ users' = [users EXCEPT ![target].is_banned = ban]]_vars

\* Two bans of alice have succeeded, the later one of a user banned already,
\* and she is banned.
C26_Witness ==
    /\ \A p \in Procs :
          /\ proc[p].op = "ban_user"
          /\ proc[p].response = Response(200, "User has been banned")
    /\ users["alice"].is_banned

\* C27: in every reachable state, concurrent register calls included, no two
\* user records share a username and no two share an email.
C27_UniqueNames ==
    \A u, v \in DOMAIN users :
        (users[u].username = users[v].username \/ users[u].email = users[v].email)
            => u = v

\* C28: once every call of an interleaving of toggleLike, createComment,
\* createPost and deletePost calls has returned, every Like relation and
\* every comment in the store references a post that exists.
C28_NoDanglingReference ==
    Quiescent =>
        /\ \A l \in likes : l.post_id \in DOMAIN posts
        /\ \A c \in comments : c.post_id \in DOMAIN posts

\* C29: once every call of an interleaving of createPost and deletePost calls
\* (with toggleLike and createComment calls) has returned, the post counter
\* of every user is the number of posts in the store that the user wrote.
C29_PostCounterConsistent ==
    Quiescent =>
        \A u \in DOMAIN users :
            users[u].posts_count
                = Cardinality({q \in DOMAIN posts : posts[q].author_id = u})

====
